---- MODULE Spec2Model ----
(***************************************************************************)
(* Connection manager (globalPool / initializeDatabase / getDbConnection), *)
(* server startup and SIGINT shutdown of index.js and server.js, and the   *)
(* JWT middleware of utils/auth.                                           *)
(*                                                                         *)
(* Every "await" of the source is a suspension point: the code up to the   *)
(* await is one action, the continuation after it is another.  The         *)
(* database is an environment: it can go down and come back at any time.   *)
(* An operation in flight fails when the database is down or its pool is   *)
(* not open when it completes; it may fail when the database was down at   *)
(* some moment of its flight (a connect) or of the life of the pool it     *)
(* runs on (a query on a pool with stale connections); it succeeds         *)
(* otherwise.  Every sql.connect call that resolves yields a pool of its   *)
(* own; pool.close() is the only way a pool stops being open.              *)
(***************************************************************************)
EXTENDS Integers, FiniteSets, Sequences, TLC

\* ---- bounds of the model ----
NumReq == 2          \* request slots (requests in flight at the same time)
MaxArrivals == 2     \* requests accepted over a run
MaxConnects == 3     \* sql.connect attempts over a run
MaxClock == 2        \* the logical clock runs from 0 to MaxClock
MaxHeaderLen == 3    \* longest Authorization header, in atoms
MaxTokenLen == 2     \* longest refresh-token string of a request body, in atoms
MaxPad == 1          \* longest run of spaces around the word of a text field
MaxTtl == 2          \* longest token lifetime, in clock units

\* "let globalPool = null": the absent handle
NULL == 0

Slots == 1..NumReq
HandleIds == 1..MaxConnects
Variants == {"index", "server"}

VARIABLES
    variant,       \* which server file runs: "index" (index.js) or "server" (server.js)
    dbUp,          \* environment: the database is reachable
    globalPool,    \* the shared handle, NULL or a handle id
    handles,       \* handle id -> "none" | "open" | "closing" | "closed"
    hurt,          \* handles that lived through a database outage
    connects,      \* number of sql.connect calls made so far
    start,         \* startServer(): [pc, hit, target]
    listenCalled,  \* app.listen has been called
    exited,        \* process.exit has been called
    exitCode,      \* its argument
    sig,           \* the SIGINT handler: [pc, handle]
    req,           \* slot -> the request being handled in it
    arrivals,      \* requests accepted so far
    last,          \* the latest getDbConnection settlement or response
    clock,         \* logical time, in the unit of token lifetimes
    authReq,       \* the request the auth middleware last ran on
    authRes,       \* what the middleware did with it
    ttl,           \* JWT_EXPIRES_IN and JWT_REFRESH_EXPIRES_IN, in clock units
    session,       \* what a client holds: access token, refresh cookie
    rt             \* the route handler being run: request, position, response

vars == <<variant, dbUp, globalPool, handles, hurt, connects, start,
          listenCalled, exited, exitCode, sig, req, arrivals, last,
          clock, authReq, authRes, ttl, session, rt>>

connVars == <<variant, dbUp, globalPool, handles, hurt, connects, start,
              listenCalled, exited, exitCode, sig, req, arrivals, last>>
authVars == <<clock, authReq, authRes>>
tokVars == <<ttl, session>>

\* ---- handles ----
Created == Cardinality({h \in HandleIds : handles[h] # "none"})
Live(h) == handles[h] \in {"open", "closing"}

\* ---- environment: outcome of an awaited driver operation ----
\* h is the pool the operation runs on (NULL for sql.connect itself),
\* hit says the database was down at some moment of a connect's flight.
PoolOpen(h) == IF h = NULL THEN TRUE ELSE handles[h] = "open"
PoolSound(h) == IF h = NULL THEN TRUE ELSE handles[h] = "open" /\ h \notin hurt
OpMaySucceed(h, hit) == dbUp /\ PoolOpen(h)
OpMayFail(h, hit) == ~dbUp \/ hit \/ ~PoolSound(h)

\* a request: where its handler is suspended (pc), the pool its pending
\* operation runs on (target), and what the handler saw and did so far:
\* absent = globalPool was null on entry, base = pools created before it,
\* attempts = its sql.connect calls, probed = the pool its probe found alive,
\* clean = the database has been reachable since it arrived
IdleReq ==
    [pc |-> "idle", route |-> "managed", target |-> NULL, hit |-> FALSE,
     clean |-> FALSE, base |-> 0, absent |-> FALSE, attempts |-> 0,
     probed |-> NULL]

NoEvent ==
    [event |-> "none", route |-> "managed", clean |-> FALSE, base |-> 0,
     absent |-> FALSE, attempts |-> 0, probed |-> NULL, result |-> NULL,
     err |-> "none", status |-> 0]

ConnInit ==
    /\ variant \in Variants
    /\ dbUp \in BOOLEAN
    /\ globalPool = NULL
    /\ handles = [h \in HandleIds |-> "none"]
    /\ hurt = {}
    /\ connects = 0
    /\ start = [pc |-> "init", hit |-> FALSE, target |-> NULL]
    /\ listenCalled = FALSE
    /\ exited = FALSE
    /\ exitCode = 0
    /\ sig = [pc |-> "none", handle |-> NULL]
    /\ req = [c \in Slots |-> IdleReq]
    /\ arrivals = 0
    /\ last = NoEvent

\* ======================= utils/auth: JWT middleware ======================
\* An Authorization header is a string; it is modelled as a sequence of
\* atoms: the space character, the word "Bearer", or a JWT (a string
\* without spaces).  Atoms other than the space concatenate into words.
Users == {"alice", "bob"}
Keys == {"JWT_SECRET", "other"}     \* the key a token is signed with

SP == [kind |-> "sp", user |-> "-", exp |-> 0, key |-> "-"]
Bearer == [kind |-> "word", user |-> "-", exp |-> 0, key |-> "-"]
Jwt(u, e, k) == [kind |-> "jwt", user |-> u, exp |-> e, key |-> k]
Jwts == {Jwt(u, e, k) : u \in Users, e \in 0..MaxClock, k \in Keys}
Atoms == {SP, Bearer} \cup Jwts

BoundedSeq(S, n) == UNION {[1..m -> S] : m \in 0..n}
\* req.headers["authorization"]: undefined, or a string
Headers ==
    {[present |-> FALSE, chars |-> <<>>]}
        \cup {[present |-> TRUE, chars |-> cs] : cs \in BoundedSeq(Atoms, MaxHeaderLen)}

Undefined == [defined |-> FALSE, word |-> <<>>]
Str(w) == [defined |-> TRUE, word |-> w]
Truthy(v) == v.defined /\ v.word # <<>>

NoUser == [userId |-> "-", exp |-> 0]
\* the identity optionalAuthForReports attaches:
\* { userId: 1, username: "system", role: "admin" }
SystemUser == [userId |-> "system", exp |-> 0]
NoToken == [kind |-> "none", user |-> "-", exp |-> 0, key |-> "-"]

\* String.prototype.split(" "): the words between the spaces, empty ones too
RECURSIVE split(_)
split(cs) ==
    IF \A i \in 1..Len(cs) : cs[i] # SP
    THEN <<cs>>
    ELSE LET i == CHOOSE k \in 1..Len(cs) :
                      cs[k] = SP /\ \A j \in 1..(k - 1) : cs[j] # SP
         IN <<SubSeq(cs, 1, i - 1)>> \o split(SubSeq(cs, i + 1, Len(cs)))

\* authHeader && authHeader.split(" ")[1]
bearerToken(h) ==
    IF ~h.present THEN Undefined
    ELSE IF h.chars = <<>> THEN Str(<<>>)
    ELSE LET parts == split(h.chars)
         IN IF Len(parts) >= 2 THEN Str(parts[2]) ELSE Undefined

\* jwt.verify(token, JWT_SECRET) at time now: the token must be a
\* well-formed JWT, signed with JWT_SECRET, and now must be before its
\* expiry; each failure throws an error of its own
jwtVerify(w, now) ==
    IF w = <<>>
    THEN [ok |-> FALSE, decoded |-> NoUser, error |-> "jwt must be provided"]
    ELSE IF ~(Len(w) = 1 /\ w[1].kind = "jwt")
    THEN [ok |-> FALSE, decoded |-> NoUser, error |-> "jwt malformed"]
    ELSE IF w[1].key # "JWT_SECRET"
    THEN [ok |-> FALSE, decoded |-> NoUser, error |-> "invalid signature"]
    ELSE IF now >= w[1].exp
    THEN [ok |-> FALSE, decoded |-> NoUser, error |-> "jwt expired"]
    ELSE [ok |-> TRUE, decoded |-> [userId |-> w[1].user, exp |-> w[1].exp],
          error |-> "none"]

\* a verifyToken that rethrows the library's error
verifyToken_rethrow(w, now) == jwtVerify(w, now)

\* try { return jwt.verify(token, JWT_SECRET) }
\* catch (error) { throw new Error("Invalid or expired token") }
verifyToken(w, now) ==
    LET v == jwtVerify(w, now)
    IN IF v.ok THEN v ELSE [v EXCEPT !.error = "Invalid or expired token"]

\* what a middleware did: the status of the response it wrote (0: none),
\* how many times it called next(), req.user after it, the message and the
\* error field of the response, the access token the response carries
AuthOutcome(mw, now, status, next, user, message, error) ==
    [middleware |-> mw, at |-> now, status |-> status, next |-> next,
     user |-> user, message |-> message, error |-> error, token |-> NoToken]

\* a middleware that lets a request with a bad token through
authenticateToken_lenient(h, now) ==
    LET token == bearerToken(h)
    IN IF ~Truthy(token)
       THEN AuthOutcome("authenticateToken", now, 401, 0, NoUser,
                        "Access token required", "none")
       ELSE LET v == verifyToken(token.word, now)
            IN AuthOutcome("authenticateToken", now, 0, 1, v.decoded,
                           "none", "none")

\* a middleware that also wants the refresh cookie of a session to be there
authenticateToken_revoking(h, now) ==
    LET token == bearerToken(h)
    IN IF ~Truthy(token)
       THEN AuthOutcome("authenticateToken", now, 401, 0, NoUser,
                        "Access token required", "none")
       ELSE LET v == verifyToken(token.word, now)
            IN IF v.ok /\ session.cookie # NoToken
               THEN AuthOutcome("authenticateToken", now, 0, 1, v.decoded,
                                "none", "none")
               ELSE AuthOutcome("authenticateToken", now, 403, 0, NoUser,
                                "Invalid or expired token",
                                "Invalid or expired token")

authenticateToken(h, now) ==
    LET token == bearerToken(h)
    IN IF ~Truthy(token)
       THEN AuthOutcome("authenticateToken", now, 401, 0, NoUser,
                        "Access token required", "none")
       ELSE LET v == verifyToken(token.word, now)
            IN IF v.ok
               THEN AuthOutcome("authenticateToken", now, 0, 1, v.decoded,
                                "none", "none")
               ELSE AuthOutcome("authenticateToken", now, 403, 0, NoUser,
                                "Invalid or expired token", v.error)

\* a report middleware that attaches the caller's claims when it has some
optionalAuthForReports_identity(h, now) ==
    LET token == bearerToken(h)
        v == verifyToken(token.word, now)
    IN IF Truthy(token) /\ v.ok
       THEN AuthOutcome("optionalAuthForReports", now, 0, 1, v.decoded,
                        "none", "none")
       ELSE AuthOutcome("optionalAuthForReports", now, 0, 1, SystemUser,
                        "none", "none")

\* req.user = { userId: 1, username: "system", role: "admin" }; next()
optionalAuthForReports(h, now) ==
    AuthOutcome("optionalAuthForReports", now, 0, 1, SystemUser, "none", "none")

\* an optional middleware that turns a bad token away
optionalAuth_strict(h, now) ==
    LET token == bearerToken(h)
    IN IF ~Truthy(token)
       THEN AuthOutcome("optionalAuth", now, 0, 1, NoUser, "none", "none")
       ELSE LET v == verifyToken(token.word, now)
            IN IF v.ok
               THEN AuthOutcome("optionalAuth", now, 0, 1, v.decoded,
                                "none", "none")
               ELSE AuthOutcome("optionalAuth", now, 403, 0, NoUser,
                                "Invalid or expired token", v.error)

\* if (token) { try { req.user = verifyToken(token) } catch { warn } } next()
optionalAuth(h, now) ==
    LET token == bearerToken(h)
    IN IF ~Truthy(token)
       THEN AuthOutcome("optionalAuth", now, 0, 1, NoUser, "none", "none")
       ELSE LET v == verifyToken(token.word, now)
            IN AuthOutcome("optionalAuth", now, 0, 1,
                           IF v.ok THEN v.decoded ELSE NoUser, "none", "none")

\* a token that outlives its lifetime by one unit
generateAccessToken_grace(payload, now) ==
    Jwt(payload.userId, now + ttl.access + 1, "JWT_SECRET")

\* jwt.sign(payload, JWT_SECRET, { expiresIn: JWT_EXPIRES_IN })
generateAccessToken(payload, now) ==
    Jwt(payload.userId, now + ttl.access, "JWT_SECRET")

\* refresh tokens signed with a key of their own
generateRefreshToken_ownSecret(payload, now) ==
    Jwt(payload.userId, now + ttl.refresh, "other")

\* jwt.sign(payload, JWT_SECRET, { expiresIn: JWT_REFRESH_EXPIRES_IN })
generateRefreshToken(payload, now) ==
    Jwt(payload.userId, now + ttl.refresh, "JWT_SECRET")

\* req.body.refreshToken: undefined, or a string
TokenStrings ==
    {[present |-> FALSE, chars |-> <<>>]}
        \cup {[present |-> TRUE, chars |-> cs] : cs \in BoundedSeq(Atoms, MaxTokenLen)}

\* a refresh that reads the claims of the token without verifying it
refreshAccessToken_decoding(b, now) ==
    IF ~b.present \/ b.chars = <<>>
    THEN AuthOutcome("refreshAccessToken", now, 401, 0, NoUser,
                     "Refresh token required", "none")
    ELSE IF Len(b.chars) = 1 /\ b.chars[1].kind = "jwt"
    THEN [AuthOutcome("refreshAccessToken", now, 200, 0,
                      [userId |-> b.chars[1].user, exp |-> b.chars[1].exp],
                      "Token refreshed successfully", "none")
             EXCEPT !.token =
                 generateAccessToken([userId |-> b.chars[1].user], now)]
    ELSE AuthOutcome("refreshAccessToken", now, 403, 0, NoUser,
                     "Invalid refresh token", "Invalid or expired token")

\* refreshAccessToken on req.body.refreshToken = b
refreshAccessToken(b, now) ==
    IF ~b.present \/ b.chars = <<>>
    THEN AuthOutcome("refreshAccessToken", now, 401, 0, NoUser,
                     "Refresh token required", "none")
    ELSE LET v == verifyToken(b.chars, now)
         IN IF v.ok
            THEN [AuthOutcome("refreshAccessToken", now, 200, 0, v.decoded,
                              "Token refreshed successfully", "none")
                     EXCEPT !.token = generateAccessToken(v.decoded, now)]
            ELSE AuthOutcome("refreshAccessToken", now, 403, 0, NoUser,
                             "Invalid refresh token", v.error)

NoHeader == [present |-> FALSE, chars |-> <<>>]
NoOutcome == AuthOutcome("none", 0, 0, 0, NoUser, "none", "none")

\* JWT_EXPIRES_IN = "24h", JWT_REFRESH_EXPIRES_IN = "7d" unless the
\* environment says otherwise
DefaultTtl == [access |-> 1, refresh |-> 2]
NoSession ==
    [access |-> NoToken, accessIat |-> 0, refresh |-> NoToken, refreshIat |-> 0,
     cookie |-> NoToken, loggedOut |-> FALSE]

NoBody == [empty |-> TRUE]
\* no handler is running
IdleRoute ==
    [route |-> "none", body |-> NoBody, pc |-> "idle", pool |-> NULL,
     acquired |-> FALSE, executed |-> 0, status |-> 0, message |-> "none",
     error |-> {}, token |-> NoToken, cookie |-> NoToken,
     caught |-> [code |-> "none", message |-> {}, number |-> 0],
     inserted |-> {}, sent |-> 0]

AuthIdle ==
    /\ clock = 0
    /\ authReq = NoHeader
    /\ authRes = NoOutcome

RestIdle ==
    /\ ttl = DefaultTtl
    /\ session = NoSession
    /\ rt = IdleRoute

Init == ConnInit /\ AuthIdle /\ RestIdle

\* ---- the middleware on its own: requests with any header, at any time ----
AuthInit ==
    /\ ConnInit /\ variant = "index" /\ dbUp
    /\ AuthIdle /\ RestIdle

\* time passes between two requests (a middleware runs in one go)
Tick ==
    /\ clock < MaxClock
    /\ authRes = NoOutcome
    /\ clock' = clock + 1
    /\ UNCHANGED <<connVars, tokVars, rt, authReq, authRes>>

\* a request reaches a route gated by authenticateToken
AuthenticateTokenRequest ==
    /\ authRes = NoOutcome
    /\ \E h \in Headers :
         /\ authReq' = h
         /\ authRes' = authenticateToken(h, clock)
    /\ UNCHANGED <<connVars, tokVars, rt, clock>>

\* a request reaches a route behind optionalAuthForReports
OptionalAuthForReportsRequest ==
    /\ authRes = NoOutcome
    /\ \E h \in Headers :
         /\ authReq' = h
         /\ authRes' = optionalAuthForReports(h, clock)
    /\ UNCHANGED <<connVars, tokVars, rt, clock>>

\* a request goes through optionalAuth
OptionalAuthRequest ==
    /\ authRes = NoOutcome
    /\ \E h \in Headers :
         /\ authReq' = h
         /\ authRes' = optionalAuth(h, clock)
    /\ UNCHANGED <<connVars, tokVars, rt, clock>>

\* refreshAccessToken runs on a request whose body.refreshToken is b
RefreshAccessTokenRequest ==
    /\ authRes = NoOutcome
    /\ \E b \in TokenStrings :
         /\ authReq' = b
         /\ authRes' = refreshAccessToken(b, clock)
    /\ UNCHANGED <<connVars, tokVars, rt, clock>>

\* the request is over; the next one starts from a fresh req object
RequestEnds ==
    /\ authRes # NoOutcome
    /\ rt.pc = "idle"
    /\ authReq' = NoHeader
    /\ authRes' = NoOutcome
    /\ UNCHANGED <<connVars, tokVars, rt, clock>>

AuthNext ==
    \/ Tick
    \/ AuthenticateTokenRequest
    \/ RefreshAccessTokenRequest
    \/ RequestEnds

SpecAuth == AuthInit /\ [][AuthNext]_vars

\* ---- the two optional middlewares, under any header and time ----
OptionalNext ==
    \/ Tick
    \/ OptionalAuthForReportsRequest
    \/ OptionalAuthRequest
    \/ RequestEnds

SpecOptional == AuthInit /\ [][OptionalNext]_vars

\* ---- environment actions ----
DbGoesDown ==
    /\ ~exited /\ dbUp
    /\ dbUp' = FALSE
    /\ hurt' = hurt \cup {h \in HandleIds : Live(h)}
    /\ start' = [start EXCEPT !.hit = (@ \/ start.pc = "connecting")]
    /\ req' = [c \in Slots |->
                 IF req[c].pc \in {"probing", "connecting", "testing", "query"}
                 THEN [req[c] EXCEPT !.hit = (@ \/ req[c].pc = "connecting"),
                                     !.clean = FALSE]
                 ELSE req[c]]
    /\ UNCHANGED <<authVars, tokVars, rt, variant, globalPool, handles, connects, listenCalled,
                   exited, exitCode, sig, arrivals, last>>

DbComesUp ==
    /\ ~exited /\ ~dbUp
    /\ dbUp' = TRUE
    /\ UNCHANGED <<authVars, tokVars, rt, variant, globalPool, handles, hurt, connects, start,
                   listenCalled, exited, exitCode, sig, req, arrivals, last>>


\* ---- initializeDatabase: the parts shared by its callers ----
\* "globalPool = await sql.connect(config)" resolved: a new pool exists and
\* is the shared handle (index.js also registers the 'error' listener on it).
sqlConnected(h) ==
    /\ handles' = [handles EXCEPT ![h] = "open"]
    /\ globalPool' = h

\* catch (err) { globalPool = null; throw err; }
initializeDatabase_catch ==
    /\ globalPool' = NULL
    /\ UNCHANGED handles

\* ---- startServer ----
\* a startServer that falls back to serving without a database
startServer_catch_serving ==
    /\ listenCalled' = TRUE
    /\ UNCHANGED <<exited, exitCode>>

\* catch (err) { ...; process.exit(1); }
startServer_catch ==
    /\ exited' = TRUE
    /\ exitCode' = 1
    /\ UNCHANGED listenCalled

\* app.listen(PORT, ...)
startServer_listen ==
    /\ listenCalled' = TRUE
    /\ UNCHANGED <<exited, exitCode>>

\* startServer() up to "await sql.connect(config)" inside initializeDatabase
startServer ==
    /\ ~exited /\ start.pc = "init"
    /\ globalPool = NULL            \* "if (globalPool) return globalPool" is not taken
    /\ connects < MaxConnects
    /\ connects' = connects + 1
    /\ start' = [pc |-> "connecting", hit |-> ~dbUp, target |-> NULL]
    /\ UNCHANGED <<authVars, tokVars, rt, variant, dbUp, globalPool, handles, hurt, listenCalled,
                   exited, exitCode, sig, req, arrivals, last>>

\* the startup connect resolves
startServer_connectOk ==
    /\ ~exited /\ start.pc = "connecting"
    /\ OpMaySucceed(NULL, start.hit)
    /\ sqlConnected(Created + 1)
    /\ IF variant = "index"
       THEN \* await globalPool.request().query("SELECT 1 as test")
            /\ start' = [pc |-> "testing", hit |-> FALSE, target |-> Created + 1]
            /\ UNCHANGED <<listenCalled, exited, exitCode>>
       ELSE \* server.js: return globalPool; then app.listen
            /\ start' = [pc |-> "listening", hit |-> FALSE, target |-> NULL]
            /\ startServer_listen
    /\ UNCHANGED <<authVars, tokVars, rt, variant, dbUp, hurt, connects, sig, req, arrivals, last>>

\* the startup connect rejects
startServer_connectFail ==
    /\ ~exited /\ start.pc = "connecting"
    /\ OpMayFail(NULL, start.hit)
    /\ initializeDatabase_catch
    /\ start' = [pc |-> "failed", hit |-> FALSE, target |-> NULL]
    /\ startServer_catch
    /\ UNCHANGED <<authVars, tokVars, rt, variant, dbUp, hurt, connects, sig, req, arrivals, last>>

\* index.js: the startup test query resolves; initializeDatabase returns
startServer_testOk ==
    /\ ~exited /\ start.pc = "testing"
    /\ OpMaySucceed(start.target, start.hit)
    /\ start' = [pc |-> "listening", hit |-> FALSE, target |-> NULL]
    /\ startServer_listen
    /\ UNCHANGED <<authVars, tokVars, rt, variant, dbUp, globalPool, handles, hurt, connects, sig,
                   req, arrivals, last>>

\* index.js: the startup test query rejects
startServer_testFail ==
    /\ ~exited /\ start.pc = "testing"
    /\ OpMayFail(start.target, start.hit)
    /\ initializeDatabase_catch
    /\ start' = [pc |-> "failed", hit |-> FALSE, target |-> NULL]
    /\ startServer_catch
    /\ UNCHANGED <<authVars, tokVars, rt, variant, dbUp, hurt, connects, sig, req, arrivals, last>>

\* ---- globalPool.on("error", ...) of index.js ----
\* The listener is registered on every pool index.js creates and resets the
\* shared variable whichever pool emits the event.
\* an 'error' listener that reconnects by itself
poolErrorHandler_reconnecting ==
    /\ connects < MaxConnects
    /\ globalPool' = NULL
    /\ connects' = connects + 1
    /\ UNCHANGED handles

poolErrorHandler ==
    /\ globalPool' = NULL
    /\ UNCHANGED <<connects, handles>>

PoolError(h) ==
    /\ ~exited /\ variant = "index"
    /\ handles[h] = "open" /\ h \in hurt
    /\ poolErrorHandler
    /\ UNCHANGED <<authVars, tokVars, rt, variant, dbUp, hurt, start, listenCalled, exited,
                   exitCode, sig, req, arrivals, last>>

\* ---- process.on("SIGINT", ...) ----
\* up to "await globalPool.close()", or straight to process.exit(0)
Sigint ==
    /\ ~exited /\ sig.pc = "none"
    /\ IF globalPool # NULL
       THEN /\ handles' = [handles EXCEPT ![globalPool] = "closing"]
            /\ sig' = [pc |-> "closing", handle |-> globalPool]
            /\ UNCHANGED <<exited, exitCode>>
       ELSE /\ sig' = [pc |-> "done", handle |-> NULL]
            /\ exited' = TRUE
            /\ exitCode' = 0
            /\ UNCHANGED handles
    /\ UNCHANGED <<authVars, tokVars, rt, variant, dbUp, globalPool, hurt, connects, start,
                   listenCalled, req, arrivals, last>>

\* close() resolved; process.exit(0)
Sigint_closed ==
    /\ ~exited /\ sig.pc = "closing"
    /\ handles' = [handles EXCEPT ![sig.handle] = "closed"]
    /\ sig' = [sig EXCEPT !.pc = "done"]
    /\ exited' = TRUE
    /\ exitCode' = 0
    /\ UNCHANGED <<authVars, tokVars, rt, variant, dbUp, globalPool, hurt, connects, start,
                   listenCalled, req, arrivals, last>>


\* ---- route handlers ----
Free(c) == req[c].pc = "idle"

\* A request is accepted only while the server listens (slots are
\* interchangeable: a new request takes the first free one).
Accepting(c) ==
    /\ ~exited /\ listenCalled
    /\ Free(c) /\ \A d \in Slots : d < c => ~Free(d)
    /\ arrivals < MaxArrivals

NewReq(route) ==
    [IdleReq EXCEPT !.route = route, !.clean = dbUp, !.base = Created,
                    !.absent = (globalPool = NULL)]

\* what is recorded of a settled getDbConnection call or of a response
Event(kind, r, result, err, status) ==
    [event |-> kind, route |-> r.route, clean |-> r.clean, base |-> r.base,
     absent |-> r.absent, attempts |-> r.attempts, probed |-> r.probed,
     result |-> result, err |-> err, status |-> status]

\* "const pool = await getDbConnection()" resolved with pool; the handler
\* goes on to "await pool.request()....query(...)": a null pool throws a
\* TypeError there, which the handler's catch answers with 500.
handlerGotPool(c, r, pool) ==
    /\ last' = Event("acquired", r, pool, "none", IF pool = NULL THEN 500 ELSE 0)
    /\ req' = [req EXCEPT ![c] =
                 IF pool = NULL
                 THEN IdleReq
                 ELSE [IdleReq EXCEPT !.pc = "query", !.route = r.route,
                          !.target = pool, !.absent = r.absent,
                          !.attempts = r.attempts]]

\* the error getDbConnection rejects with when initializeDatabase throws:
\* the "if (!globalPool)" branch wraps it, the reconnect branch lets it through
getDbConnection_error(r) ==
    IF r.absent THEN "Database connection not available" ELSE "driver error"

\* getDbConnection rejected; the handler's catch answers 500
handlerNoPool(c, r) ==
    /\ last' = Event("rejected", r, NULL, getDbConnection_error(r), 500)
    /\ req' = [req EXCEPT ![c] = IdleReq]

\* the handler writes its response
respond(c, r, err, status) ==
    /\ last' = Event("responded", r, NULL, err, status)
    /\ req' = [req EXCEPT ![c] = IdleReq]

\* a route that calls getDbConnection(): the call up to its first await
getDbConnection(c) ==
    /\ Accepting(c)
    /\ arrivals' = arrivals + 1
    /\ IF globalPool = NULL
       THEN \* return await initializeDatabase() -> await sql.connect(config)
            /\ connects < MaxConnects
            /\ connects' = connects + 1
            /\ req' = [req EXCEPT ![c] =
                         [NewReq("managed") EXCEPT !.pc = "connecting",
                             !.attempts = 1, !.hit = ~dbUp]]
            /\ UNCHANGED last
       ELSE /\ UNCHANGED connects
            /\ IF variant = "index"
               THEN \* await globalPool.request().query("SELECT 1 as test")
                    /\ req' = [req EXCEPT ![c] =
                                 [NewReq("managed") EXCEPT !.pc = "probing",
                                     !.target = globalPool]]
                    /\ UNCHANGED last
               ELSE \* server.js: return globalPool
                    handlerGotPool(c, NewReq("managed"), globalPool)
    /\ UNCHANGED <<authVars, tokVars, rt, variant, dbUp, globalPool, handles, hurt, start,
                   listenCalled, exited, exitCode, sig>>

\* index.js: the liveness probe resolves; "return globalPool"
getDbConnection_probeOk(c) ==
    /\ ~exited /\ req[c].pc = "probing"
    /\ OpMaySucceed(req[c].target, FALSE)
    /\ handlerGotPool(c, [req[c] EXCEPT !.probed = req[c].target], globalPool)
    /\ UNCHANGED <<authVars, tokVars, rt, variant, dbUp, globalPool, handles, hurt, connects, start,
                   listenCalled, exited, exitCode, sig, arrivals>>

\* index.js: the probe rejects; globalPool = null; return await
\* initializeDatabase() -> await sql.connect(config)
getDbConnection_probeFail(c) ==
    /\ ~exited /\ req[c].pc = "probing"
    /\ OpMayFail(req[c].target, FALSE)
    /\ connects < MaxConnects
    /\ globalPool' = NULL
    /\ connects' = connects + 1
    /\ req' = [req EXCEPT ![c] =
                 [req[c] EXCEPT !.pc = "connecting", !.attempts = @ + 1,
                     !.target = NULL, !.hit = ~dbUp]]
    /\ UNCHANGED <<authVars, tokVars, rt, variant, dbUp, handles, hurt, start, listenCalled,
                   exited, exitCode, sig, arrivals, last>>

\* initializeDatabase: sql.connect resolves
initializeDatabase_connectOk(c) ==
    /\ ~exited /\ req[c].pc = "connecting"
    /\ OpMaySucceed(NULL, req[c].hit)
    /\ sqlConnected(Created + 1)
    /\ IF variant = "index"
       THEN \* await globalPool.request().query("SELECT 1 as test")
            /\ req' = [req EXCEPT ![c] =
                         [req[c] EXCEPT !.pc = "testing",
                             !.target = Created + 1, !.hit = FALSE]]
            /\ UNCHANGED last
       ELSE \* server.js: return globalPool
            handlerGotPool(c, req[c], Created + 1)
    /\ UNCHANGED <<authVars, tokVars, rt, variant, dbUp, hurt, connects, start, listenCalled,
                   exited, exitCode, sig, arrivals>>

\* initializeDatabase: sql.connect rejects
initializeDatabase_connectFail(c) ==
    /\ ~exited /\ req[c].pc = "connecting"
    /\ OpMayFail(NULL, req[c].hit)
    /\ initializeDatabase_catch
    /\ handlerNoPool(c, req[c])
    /\ UNCHANGED <<authVars, tokVars, rt, variant, dbUp, hurt, connects, start, listenCalled,
                   exited, exitCode, sig, arrivals>>

\* index.js initializeDatabase: the test query resolves; "return globalPool"
initializeDatabase_testOk(c) ==
    /\ ~exited /\ req[c].pc = "testing"
    /\ OpMaySucceed(req[c].target, FALSE)
    /\ handlerGotPool(c, req[c], globalPool)
    /\ UNCHANGED <<authVars, tokVars, rt, variant, dbUp, globalPool, handles, hurt, connects, start,
                   listenCalled, exited, exitCode, sig, arrivals>>

\* index.js initializeDatabase: the test query rejects
initializeDatabase_testFail(c) ==
    /\ ~exited /\ req[c].pc = "testing"
    /\ OpMayFail(req[c].target, FALSE)
    /\ initializeDatabase_catch
    /\ handlerNoPool(c, req[c])
    /\ UNCHANGED <<authVars, tokVars, rt, variant, dbUp, hurt, connects, start, listenCalled,
                   exited, exitCode, sig, arrivals>>

\* index.js /api/document, /api/keywords, /api/document/:id:
\* "if (!globalPool) throw ...; const request = globalPool.request();"
directRoute(c) ==
    /\ Accepting(c) /\ variant = "index"
    /\ arrivals' = arrivals + 1
    /\ IF globalPool = NULL
       THEN respond(c, NewReq("direct"),
                    "Database connection not available", 500)
       ELSE /\ req' = [req EXCEPT ![c] =
                         [IdleReq EXCEPT !.pc = "query", !.route = "direct",
                                         !.target = globalPool]]
            /\ UNCHANGED last
    /\ UNCHANGED <<authVars, tokVars, rt, variant, dbUp, globalPool, handles, hurt, connects, start,
                   listenCalled, exited, exitCode, sig>>

\* the handler's query resolves: res.json(...)
handler_queryOk(c) ==
    /\ ~exited /\ req[c].pc = "query"
    /\ OpMaySucceed(req[c].target, FALSE)
    /\ respond(c, req[c], "none", 200)
    /\ UNCHANGED <<authVars, tokVars, rt, variant, dbUp, globalPool, handles, hurt, connects, start,
                   listenCalled, exited, exitCode, sig, arrivals>>

\* the handler's query rejects: catch -> res.status(500)
handler_queryFail(c) ==
    /\ ~exited /\ req[c].pc = "query"
    /\ OpMayFail(req[c].target, FALSE)
    /\ respond(c, req[c], "driver error", 500)
    /\ UNCHANGED <<authVars, tokVars, rt, variant, dbUp, globalPool, handles, hurt, connects, start,
                   listenCalled, exited, exitCode, sig, arrivals>>

Next ==
    \/ DbGoesDown
    \/ DbComesUp
    \/ startServer
    \/ startServer_connectOk
    \/ startServer_connectFail
    \/ startServer_testOk
    \/ startServer_testFail
    \/ \E h \in HandleIds : PoolError(h)
    \/ Sigint
    \/ Sigint_closed
    \/ \E c \in Slots :
         \/ getDbConnection(c)
         \/ getDbConnection_probeOk(c)
         \/ getDbConnection_probeFail(c)
         \/ initializeDatabase_connectOk(c)
         \/ initializeDatabase_connectFail(c)
         \/ initializeDatabase_testOk(c)
         \/ initializeDatabase_testFail(c)
         \/ directRoute(c)
         \/ handler_queryOk(c)
         \/ handler_queryFail(c)

Spec == Init /\ [][Next]_vars


\* ================== route handlers: what one request does =================
\* A value of a request body: undefined, a number, or a string.  A string
\* is a word between two runs of spaces; the empty word gives the empty
\* string and the strings made of spaces only.
JsUndefined == [t |-> "undefined", lead |-> 0, word |-> "", trail |-> 0, n |-> 0]
JsNull == [t |-> "null", lead |-> 0, word |-> "", trail |-> 0, n |-> 0]
JsNumber(n) == [t |-> "number", lead |-> 0, word |-> "", trail |-> 0, n |-> n]
JsString(lead, word, trail) ==
    [t |-> "string", lead |-> lead, word |-> word, trail |-> trail, n |-> 0]
Word(w) == JsString(0, w, 0)

\* the number of characters of a word: "fifty" has 50, "long" has 120,
\* every other word is short
WordLen(w) ==
    CASE w = "" -> 0
      [] w = "fifty" -> 50
      [] w = "long" -> 120
      [] OTHER -> 5

\* input.length of a string
JsLength(v) == v.lead + WordLen(v.word) + v.trail
\* !v is false: a non-empty string or a number other than 0
JsTruthy(v) ==
    \/ v.t = "string" /\ JsLength(v) > 0
    \/ v.t = "number" /\ v.n # 0
\* String.prototype.trim
trim(v) == [v EXCEPT !.lead = 0, !.trail = 0]
\* v.length > max; the length of a number is undefined and exceeds nothing
LongerThan(v, max) == v.t = "string" /\ JsLength(v) > max

\* words that read as numbers, and parseFloat: a number, or NaN
NumWords == {"-1", "0", "1", "5"}
NumVal(w) == CASE w = "-1" -> 0 - 1 [] w = "0" -> 0 [] w = "1" -> 1 [] OTHER -> 5
parseFloat(v) ==
    IF v.t = "number" THEN [nan |-> FALSE, val |-> v.n]
    ELSE IF v.t = "string" /\ v.word \in NumWords
    THEN [nan |-> FALSE, val |-> NumVal(v.word)]
    ELSE [nan |-> TRUE, val |-> 0]

\* validateInput(input, type, maxLength); the routes pass "string" only
validateInput(input, type, maxLength) ==
    IF ~JsTruthy(input) THEN JsNull
    ELSE IF type = "string"
    THEN IF input.t = "string" /\ JsLength(input) <= maxLength
         THEN trim(input)
         ELSE JsNull
    ELSE IF type = "number"
    THEN IF parseFloat(input).nan THEN JsNull ELSE JsNumber(parseFloat(input).val)
    ELSE JsNull

\* the strings over a set of words, with up to MaxPad spaces on each side
Texts(words) ==
    {JsString(l, w, r) : l \in 0..MaxPad, w \in words, r \in 0..MaxPad}
        \cup {JsString(l, "", 0) : l \in 0..MaxPad}
\* values of a field that is only tested for presence
Req == {JsUndefined, Word(""), Word("x")}
\* values of an amount field
Amounts ==
    {JsUndefined, JsNumber(0), JsNumber(1), JsNumber(5),
     Word("0"), Word("-1"), Word("x")}

\* Tbl_UserMaster: one user, alice, whose password is "correct"
Tbl_UserMaster == [alice |-> [User_Password |-> "correct", User_ID |-> "alice"]]
\* SELECT ... WHERE User_Name = @username: the rows of that user
UserRows(name) ==
    IF name.t = "string" /\ name.lead = 0 /\ name.trail = 0
       /\ name.word \in DOMAIN Tbl_UserMaster
    THEN {Tbl_UserMaster[name.word]}
    ELSE {}

\* an error thrown by the driver or by the handler: err.code, err.number,
\* and err.message as the set of the phrases that message.includes() finds
Phrases ==
    {"Could not find stored procedure", "parameter", "timeout",
     "Invalid object name", "column"}
\* the driver's errors: a code, a message with up to two of the phrases;
\* number 2627 is the violation of a unique constraint
DbErrors ==
    {[code |-> c, message |-> m, number |-> 0] :
        c \in {"EREQUEST", "ETIMEOUT"},
        m \in {S \in SUBSET Phrases : Cardinality(S) <= 2}}
    \cup {[code |-> "EREQUEST", message |-> {}, number |-> 2627]}
\* new Error("Database connection not available")
NotAvailable ==
    [code |-> "none", message |-> {"Database connection not available"},
     number |-> 0]
\* pool.request() on a null pool
TypeError == [code |-> "none", message |-> {"Cannot read properties of null"},
              number |-> 0]

Routes(v) ==
    IF v = "server" THEN {"/api/health", "/api/reports/high-value"}
    ELSE {"/api/login", "/api/auth/login", "/api/usercreatapi", "/api/userright",
          "/api/userright-transfer", "/api/schemes", "/api/high-value-trans",
          "/api/document", "/api/reportdocument", "/api/updateAttendMember",
          "/api/regMembersReport", "/api/register-member"}

LoginBodies ==
    [username : {JsUndefined, JsNumber(7)} \cup Texts({"alice", "ghost", "fifty"}),
     password : {JsUndefined, JsNumber(7)} \cup Texts({"correct", "wrong", "long"})]

\* req.body of a request to a route
Bodies(route) ==
    CASE route \in {"/api/login", "/api/auth/login"} -> LoginBodies
      [] route = "/api/usercreatapi" ->
           [userName : {JsUndefined, Word("alice"), Word("carol")},
            userPassword : {JsUndefined, Word("pw")},
            userType : {JsUndefined, Word("Admin"), JsString(1, "User", 0),
                        Word("Guest")},
            userAvailabilityStatus : {JsUndefined, Word("YES"), Word("MAYBE")},
            mobile : {JsUndefined, Word("555")},
            email : {JsUndefined, Word("a@b.c"), Word("nomail")}]
      [] route = "/api/userright" ->
           [user : {JsUndefined, Word("x"), Word("long")},
            Users : {JsUndefined, Word("x"), Word("long")}]
      [] route = "/api/userright-transfer" ->
           [user : {JsUndefined, Word("x"), Word("fifty")},
            fromDate : {JsUndefined, Word("x"), Word("fifty")},
            toDate : {JsUndefined, Word("x"), Word("fifty")}]
      [] route = "/api/schemes" ->
           [section : {JsUndefined, JsNumber(7)} \cup Texts({"x", "fifty", "long"})]
      [] route = "/api/high-value-trans" ->
           [branchName : {JsUndefined, JsNumber(7), Word("x"), Word("fifty")},
            section : {JsUndefined, Word("x"), Word("fifty")},
            scheme : {JsUndefined, Word("x"), Word("fifty")},
            amount1 : Amounts, amount2 : Amounts,
            fromDate : {JsUndefined, Word("x")}, toDate : {JsUndefined, Word("x")}]
      [] route = "/api/document" ->
           [compCode : Req, section : Req, keyword : Req, details : Req,
            userName : Req]
      [] route = "/api/reportdocument" -> [programmeName : Req, timeSlots : Req]
      [] route = "/api/updateAttendMember" -> [phone : Req, atnPersons : Req]
      [] route = "/api/regMembersReport" ->
           [programmeName : Req, timeSlots : Req,
            optionValue : {JsUndefined, JsNumber(0), JsNumber(1)}]
      [] route = "/api/register-member" ->
           [name : Req, phone : Req, noOfPerson : Req, timeSlot : Req]
      [] route \in {"/api/health", "/api/auth/me", "/api/Users"} -> {NoBody}
      [] OTHER ->
           [branchName : {JsUndefined, Word("x")},
            minAmount : Amounts, maxAmount : Amounts]

\* ---- validation: "ok", or the message of the 400 response ----
Valid(v, max) == JsTruthy(validateInput(v, "string", max))

\* POST /api/login
validate_login(b) ==
    IF ~Valid(b.username, 50) \/ ~Valid(b.password, 100)
    THEN "Valid username and password are required"
    ELSE "ok"

\* POST /api/auth/login
validate_authLogin(b) ==
    IF ~JsTruthy(b.username) \/ ~JsTruthy(b.password)
    THEN "Username and password are required"
    ELSE "ok"

\* POST /api/usercreatapi
validate_usercreatapi(b) ==
    IF \/ ~Valid(b.userName, 50) \/ ~Valid(b.userPassword, 100)
       \/ ~Valid(b.userType, 20) \/ ~Valid(b.userAvailabilityStatus, 10)
       \/ ~Valid(b.mobile, 15) \/ ~Valid(b.email, 100)
    THEN "All fields are required and must be valid"
    ELSE IF validateInput(b.email, "string", 100).word # "a@b.c"
    THEN "Please enter a valid email address"
    ELSE IF validateInput(b.userType, "string", 20).word \notin {"Admin", "User"}
    THEN "User Type must be either 'Admin' or 'User'"
    ELSE IF validateInput(b.userAvailabilityStatus, "string", 10).word
                \notin {"YES", "NO"}
    THEN "User Availability Status must be either 'YES' or 'NO'"
    ELSE "ok"

\* POST /api/userright: const user = req.body.user || req.body.Users
validate_userright(b) ==
    IF ~Valid(IF JsTruthy(b.user) THEN b.user ELSE b.Users, 100)
    THEN "A valid user is required."
    ELSE "ok"

\* POST /api/userright-transfer
validate_userrightTransfer(b) ==
    IF ~Valid(b.user, 10) THEN "A valid user is required."
    ELSE IF ~Valid(b.fromDate, 20) \/ ~Valid(b.toDate, 20)
    THEN "Valid FromDate and ToDate are required."
    ELSE "ok"

\* POST /api/schemes
validate_schemes(b) ==
    IF ~Valid(b.section, 50) THEN "Valid section is required" ELSE "ok"

\* POST /api/high-value-trans
validate_highValueTrans(b) ==
    IF ~JsTruthy(b.branchName) THEN "Branch name is required"
    ELSE IF ~JsTruthy(b.section) THEN "Section is required"
    ELSE IF ~JsTruthy(b.scheme) THEN "Scheme is required"
    ELSE IF ~JsTruthy(b.amount1) THEN "Minimum amount is required"
    ELSE IF ~JsTruthy(b.amount2) THEN "Maximum amount is required"
    ELSE IF ~JsTruthy(b.fromDate) THEN "From date is required"
    ELSE IF ~JsTruthy(b.toDate) THEN "To date is required"
    ELSE IF LongerThan(b.branchName, 10)
    THEN "Branch name too long (max 10 characters)"
    ELSE IF LongerThan(b.section, 10) THEN "Section too long (max 10 characters)"
    ELSE IF LongerThan(b.scheme, 30) THEN "Scheme too long (max 30 characters)"
    ELSE IF parseFloat(b.amount1).nan \/ parseFloat(b.amount1).val < 0
    THEN "Minimum amount must be a valid positive number"
    ELSE IF parseFloat(b.amount2).nan \/ parseFloat(b.amount2).val < 0
    THEN "Maximum amount must be a valid positive number"
    ELSE IF parseFloat(b.amount1).val > parseFloat(b.amount2).val
    THEN "Minimum amount cannot be greater than maximum amount"
    ELSE "ok"

\* POST /api/document
validate_document(b) ==
    IF \/ ~JsTruthy(b.compCode) \/ ~JsTruthy(b.section) \/ ~JsTruthy(b.keyword)
       \/ ~JsTruthy(b.details) \/ ~JsTruthy(b.userName)
    THEN "All fields (compCode, section, keyword, details, userName) are required."
    ELSE "ok"

\* POST /api/reportdocument
validate_reportdocument(b) ==
    IF ~JsTruthy(b.programmeName) \/ ~JsTruthy(b.timeSlots)
    THEN "Programme name and time slots are required."
    ELSE "ok"

\* POST /api/updateAttendMember
validate_updateAttendMember(b) ==
    IF ~JsTruthy(b.phone) \/ ~JsTruthy(b.atnPersons)
    THEN "Phone and atnPersons are required."
    ELSE "ok"

\* POST /api/regMembersReport
validate_regMembersReport(b) ==
    IF \/ ~JsTruthy(b.programmeName) \/ ~JsTruthy(b.timeSlots)
       \/ b.optionValue = JsUndefined
    THEN "Programme name, time slots, and option value are required."
    ELSE "ok"

\* POST /api/register-member
validate_registerMember(b) ==
    IF \/ ~JsTruthy(b.name) \/ ~JsTruthy(b.phone) \/ ~JsTruthy(b.noOfPerson)
       \/ ~JsTruthy(b.timeSlot)
    THEN "Name, Phone, NoofPerson, and TimeSlot are required."
    ELSE "ok"

\* the validation a route runs before it turns to the database;
\* server.js POST /api/reports/high-value has none
validate(route, b) ==
    CASE route = "/api/login" -> validate_login(b)
      [] route = "/api/auth/login" -> validate_authLogin(b)
      [] route = "/api/usercreatapi" -> validate_usercreatapi(b)
      [] route = "/api/userright" -> validate_userright(b)
      [] route = "/api/userright-transfer" -> validate_userrightTransfer(b)
      [] route = "/api/schemes" -> validate_schemes(b)
      [] route = "/api/high-value-trans" -> validate_highValueTrans(b)
      [] route = "/api/document" -> validate_document(b)
      [] route = "/api/reportdocument" -> validate_reportdocument(b)
      [] route = "/api/updateAttendMember" -> validate_updateAttendMember(b)
      [] route = "/api/regMembersReport" -> validate_regMembersReport(b)
      [] route = "/api/register-member" -> validate_registerMember(b)
      [] OTHER -> "ok"

\* ---- the handlers ----
\* res.status(status).json({ message, error }): one more response is
\* written, and the handler is done
Responded(r, status, message, error) ==
    [r EXCEPT !.pc = "done", !.status = status, !.message = message,
              !.error = error, !.sent = @ + 1]

\* the handler threw out of its catch block: it writes no response; the
\* framework either leaves the request unanswered or answers 500 itself
Threw(r, name) ==
    {[r EXCEPT !.pc = "done", !.message = name],
     [r EXCEPT !.pc = "done", !.message = name, !.status = 500,
               !.sent = @ + 1]}

\* a catch block that knows no unique-constraint violation
catch_usercreatapi_generic(r, err) ==
    {Responded(r, 500, "Failed to create user. Please try again later.",
               err.message)}

\* POST /api/usercreatapi: catch (err)
catch_usercreatapi(r, err) ==
    IF err.number = 2627
    THEN {Responded(r, 409, "User with this name already exists", {})}
    ELSE {Responded(r, 500, "Failed to create user. Please try again later.",
                    err.message)}

\* a classification that looks for the parameter mismatch first
catch_highValueTrans_parameterFirst(r, err) ==
    IF "parameter" \in err.message
    THEN {Responded(r, 500, "Parameter mismatch in stored procedure call.",
                    err.message)}
    ELSE IF "Could not find stored procedure" \in err.message
    THEN {Responded(r, 500,
                    "Stored procedure 'AuditHVTranRpt_Sp' not found in database.",
                    err.message)}
    ELSE {Responded(r, 500,
                    "Failed to fetch high value transactions report data.",
                    err.message)}

\* POST /api/high-value-trans: catch (err)
catch_highValueTrans(r, err) ==
    IF "Could not find stored procedure" \in err.message
    THEN {Responded(r, 500,
                    "Stored procedure 'AuditHVTranRpt_Sp' not found in database.",
                    err.message)}
    ELSE IF "parameter" \in err.message
    THEN {Responded(r, 500, "Parameter mismatch in stored procedure call.",
                    err.message)}
    ELSE {Responded(r, 500,
                    "Failed to fetch high value transactions report data.",
                    err.message)}

\* POST /api/document: catch (err)
catch_document(r, err) ==
    IF "Invalid object name" \in err.message
    THEN {Responded(r, 500, "Table 'Document_Tbl' not found in database.",
                    err.message)}
    ELSE IF "column" \in err.message
    THEN {Responded(r, 500,
                    "Database column error. Please check table structure.",
                    err.message)}
    ELSE {Responded(r, 500, "Failed to save document. Please try again later.",
                    err.message)}

\* POST /api/reportdocument: catch (err).  Its third statement,
\* console.error("Parameters sent:", { programmeName, timeSlots }), reads
\* two constants declared inside the try block: they are not in scope in the
\* catch block, so the statement throws a ReferenceError and the
\* "if (err.code === "ETIMEOUT" || ...) res.status(504)" below it never runs
catch_reportdocument(r, err) ==
    Threw(r, "ReferenceError: programmeName is not defined")

\* the message of the 500 response of the other routes
FailureMessage(route) ==
    CASE route = "/api/login" -> "Authentication error. Please try again later."
      [] route = "/api/auth/login" -> "Internal server error"
      [] route = "/api/userright" -> "Failed to fetch report data."
      [] route = "/api/userright-transfer" ->
           "Failed to fetch user right transfer report data."
      [] route = "/api/schemes" -> "Failed to fetch schemes from database."
      [] route = "/api/updateAttendMember" -> "Failed to update attend member."
      [] route = "/api/regMembersReport" -> "Failed to generate members report."
      [] route = "/api/register-member" -> "Failed to save registration."
      [] OTHER -> "Failed to fetch high value transaction report from database"

\* the catch block of the handler of r.route, entered with err: the
\* handlers it can leave behind
handlerCatch(r, err) ==
    LET c == [r EXCEPT !.caught = err]
    IN CASE r.route = "/api/usercreatapi" -> catch_usercreatapi(c, err)
         [] r.route = "/api/high-value-trans" -> catch_highValueTrans(c, err)
         [] r.route = "/api/document" -> catch_document(c, err)
         [] r.route = "/api/reportdocument" -> catch_reportdocument(c, err)
         [] r.route = "/api/auth/login" ->
              {Responded(c, 500, FailureMessage(r.route), {})}
         [] OTHER -> {Responded(c, 500, FailureMessage(r.route), err.message)}

\* a health check that asks for a live connection
health_probing(r) == {[r EXCEPT !.pc = "acquiring", !.acquired = TRUE]}

\* GET /api/health: database: globalPool ? "connected" : "disconnected"
health(r) ==
    {Responded(r, 200,
               IF globalPool # NULL THEN "connected" ELSE "disconnected", {})}

\* a handler that asks for the connection before it looks at the request
handlerEntry_eager(route, b) ==
    {[IdleRoute EXCEPT !.route = route, !.body = b, !.pc = "acquiring",
                       !.acquired = TRUE]}

\* the handler of a route up to its first await or to its response
handlerEntry(route, b) ==
    LET r == [IdleRoute EXCEPT !.route = route, !.body = b]
        v == validate(route, b)
    IN IF route = "/api/health" THEN health(r)
       ELSE IF v # "ok"
       THEN {Responded(r, 400, v,
                       IF route \in {"/api/document", "/api/reportdocument",
                                     "/api/updateAttendMember",
                                     "/api/regMembersReport"}
                       THEN {"Missing parameters"} ELSE {})}
       ELSE IF route = "/api/document"
       THEN \* if (!globalPool) throw ...; const request = globalPool.request()
            IF globalPool = NULL
            THEN handlerCatch(r, NotAvailable)
            ELSE {[r EXCEPT !.pc = "statement", !.pool = globalPool,
                            !.executed = 1]}
       ELSE {[r EXCEPT !.pc = "acquiring", !.acquired = TRUE]}

\* "const pool = await getDbConnection()" resolved: the handler builds its
\* first statement and awaits it.  pool.request() throws on a null pool,
\* and /api/auth/login calls username.trim(), which throws on a number
handlerAcquired(r, pool) ==
    IF pool = NULL THEN handlerCatch(r, TypeError)
    ELSE IF r.route = "/api/auth/login" /\ r.body.username.t # "string"
    THEN handlerCatch(r, TypeError)
    ELSE {[r EXCEPT !.pc = "statement", !.pool = pool, !.executed = 1]}

\* the awaited statement of the handler resolved: what the handler does
\* with the rows, at time now
statementResolved(r, now) ==
    CASE r.route = "/api/login" ->
           IF r.executed = 1
           THEN \* WHERE User_Name = @username AND User_Password = @password
                IF \E u \in UserRows(validateInput(r.body.username, "string", 50)) :
                       Word(u.User_Password)
                           = validateInput(r.body.password, "string", 100)
                THEN {Responded(r, 200, "user without password", {})}
                ELSE {[r EXCEPT !.executed = 2]}
           ELSE {Responded(r, 401, "Invalid username or password", {})}
      [] r.route = "/api/auth/login" ->
           \* WHERE User_Name = @username, bound to username.trim()
           LET rows == UserRows(trim(r.body.username))
           IN IF rows = {}
              THEN {Responded(r, 401, "Invalid username or password", {})}
              ELSE LET user == CHOOSE u \in rows : TRUE
                       tokenPayload == [userId |-> user.User_ID]
                   IN IF r.body.password # Word(user.User_Password)
                      THEN {Responded(r, 401, "Invalid username or password", {})}
                      ELSE {[Responded(r, 200, "Login successful", {}) EXCEPT
                               !.token = generateAccessToken(tokenPayload, now),
                               !.cookie = generateRefreshToken(tokenPayload, now)]}
      [] r.route = "/api/usercreatapi" ->
           IF r.executed = 1
           THEN IF UserRows(validateInput(r.body.userName, "string", 50)) # {}
                THEN {Responded(r, 409, "User with this name already exists", {})}
                ELSE {[r EXCEPT !.executed = 2]}
           ELSE \* the INSERT INTO Tbl_UserMaster resolved: the row is there
                {[Responded(r, 200, "User created successfully", {}) EXCEPT
                    !.inserted =
                        {validateInput(r.body.userName, "string", 50).word}]}
      [] r.route = "/api/auth/me" ->
           \* WHERE User_ID = @userId, bound to req.user.userId
           IF UserRows(Word(authRes.user.userId)) = {}
           THEN {Responded(r, 404, "User not found", {})}
           ELSE {Responded(r, 200, "user", {})}
      [] r.route = "/api/regMembersReport" ->
           IF r.executed = 1
           THEN {[r EXCEPT !.executed = 2]}
           ELSE {Responded(r, 200, "Report generated successfully", {})}
      [] OTHER -> {Responded(r, 200, "rows", {})}

\* what the client holds after a response r: a login response replaces the
\* cookie; the client goes on with the new tokens or keeps using the old
sessionAfter(r, now) ==
    IF r.token = NoToken THEN {session}
    ELSE {[access |-> r.token, accessIat |-> now, refresh |-> r.cookie,
           refreshIat |-> now, cookie |-> r.cookie, loggedOut |-> FALSE]}
         \cup {[session EXCEPT !.cookie = r.cookie] : x \in
                   IF session.access = NoToken THEN {} ELSE {1}}

\* the server listens: startServer has connected and called app.listen
Listening ==
    /\ dbUp = TRUE
    /\ globalPool = 1
    /\ handles = [h \in HandleIds |-> IF h = 1 THEN "open" ELSE "none"]
    /\ hurt = {}
    /\ connects = 1
    /\ start = [pc |-> "listening", hit |-> FALSE, target |-> NULL]
    /\ listenCalled = TRUE
    /\ exited = FALSE
    /\ exitCode = 0
    /\ sig = [pc |-> "none", handle |-> NULL]
    /\ req = [c \in Slots |-> IdleReq]
    /\ arrivals = 0
    /\ last = NoEvent

\* a request to route with a body of bodies arrives
RouteArrives(route, bodies) ==
    /\ rt.pc = "idle" /\ authRes = NoOutcome
    /\ \E b \in bodies : rt' \in handlerEntry(route, b)
    /\ UNCHANGED <<connVars, authVars, tokVars>>

\* "await getDbConnection()" of the handler resolves: with the shared
\* handle, with the handle of a pool that the call created, or with the
\* null that the 'error' listener of index.js left in globalPool
awaitGetDbConnection_resolved ==
    /\ rt.pc = "acquiring"
    /\ \/ /\ globalPool # NULL
          /\ rt' \in handlerAcquired(rt, globalPool)
          /\ UNCHANGED <<globalPool, handles, connects>>
       \/ /\ connects < MaxConnects
          /\ globalPool = NULL \/ variant = "index"
          /\ sqlConnected(Created + 1)
          /\ connects' = connects + 1
          /\ rt' \in handlerAcquired(rt, Created + 1)
       \/ /\ connects < MaxConnects
          /\ variant = "index"
          /\ handles' = [handles EXCEPT ![Created + 1] = "open"]
          /\ globalPool' = NULL
          /\ connects' = connects + 1
          /\ rt' \in handlerAcquired(rt, NULL)
    /\ UNCHANGED <<authVars, tokVars, variant, dbUp, hurt, start, listenCalled,
                   exited, exitCode, sig, req, arrivals, last>>

\* "await getDbConnection()" rejects: initializeDatabase left globalPool
\* null and threw; the handler's catch block runs.  server.js calls
\* initializeDatabase only when globalPool is null
awaitGetDbConnection_rejected(errs) ==
    /\ rt.pc = "acquiring"
    /\ variant = "index" \/ globalPool = NULL
    /\ initializeDatabase_catch
    /\ \E err \in {NotAvailable} \cup errs : rt' \in handlerCatch(rt, err)
    /\ UNCHANGED <<authVars, tokVars, variant, dbUp, hurt, connects, start,
                   listenCalled, exited, exitCode, sig, req, arrivals, last>>

\* the awaited query or procedure call resolves
StatementResolves ==
    /\ rt.pc = "statement"
    /\ \E r \in statementResolved(rt, clock) :
         /\ rt' = r
         /\ session' \in sessionAfter(r, clock)
    /\ UNCHANGED <<connVars, authVars, ttl>>

\* the awaited query or procedure call rejects with a driver error of errs
StatementRejects(errs) ==
    /\ rt.pc = "statement"
    /\ \E err \in errs : rt' \in handlerCatch(rt, err)
    /\ UNCHANGED <<connVars, authVars, tokVars>>

\* the request is over
RouteEnds ==
    /\ rt.pc = "done"
    /\ rt' = IdleRoute
    /\ UNCHANGED <<connVars, authVars, tokVars>>

RoutesInit ==
    /\ variant \in Variants
    /\ Listening /\ AuthIdle /\ RestIdle

RoutesNext ==
    \/ \E route \in Routes(variant) : RouteArrives(route, Bodies(route))
    \/ awaitGetDbConnection_resolved
    \/ awaitGetDbConnection_rejected(DbErrors)
    \/ StatementResolves
    \/ StatementRejects(DbErrors)
    \/ RouteEnds

SpecRoutes == RoutesInit /\ [][RoutesNext]_vars

\* ---- a client over time: login, requests with its token, refresh, logout ----
\* the header "Bearer <token>" and a token as a string of a body or cookie
BearerHeader(t) == [present |-> TRUE, chars |-> <<Bearer, SP, t>>]
TokenString(t) ==
    IF t = NoToken THEN NoHeader ELSE [present |-> TRUE, chars |-> <<t>>]

\* POST /api/auth/refresh:
\* refreshToken = req.cookies.refreshToken || req.body.refreshToken
authRefreshToken(cookie, b) ==
    IF cookie.present /\ cookie.chars # <<>> THEN cookie ELSE b

\* POST /api/auth/refresh: 401 without a token, else refreshAccessToken
authRefresh(cookie, b, now) ==
    LET refreshToken == authRefreshToken(cookie, b)
    IN IF ~refreshToken.present \/ refreshToken.chars = <<>>
       THEN AuthOutcome("refreshAccessToken", now, 401, 0, NoUser,
                        "Refresh token required", "none")
       ELSE refreshAccessToken(refreshToken, now)

\* the routes registered as app.METHOD(path, authenticateToken, handler)
GatedRoutes ==
    {"/api/auth/me", "/api/Users", "/api/userright", "/api/userright-transfer"}

\* a route whose handler runs whatever the middleware did
gated_open(route, b, out) == handlerEntry(route, b)

\* the middleware, then the handler: the handler runs when the middleware
\* called next(), otherwise the response of the middleware is the response
\* of the request
gated(route, b, out) ==
    IF out.next = 1 THEN handlerEntry(route, b)
    ELSE {Responded([IdleRoute EXCEPT !.route = route, !.body = b],
                    out.status, out.message,
                    IF out.error = "none" THEN {} ELSE {out.error})}

\* the bodies a client sends to a gated route: every field set, or none
GatedBodies(route) ==
    {b \in Bodies(route) :
        \/ b = NoBody
        \/ \A f \in DOMAIN b : b[f] = Word("x")
        \/ \A f \in DOMAIN b : b[f] = JsUndefined}

\* a request to a gated route without an Authorization header, or with
\* one of the two tokens the client holds as the bearer token
GatedRequest(route) ==
    /\ rt.pc = "idle" /\ authRes = NoOutcome
    /\ session.access # NoToken
    /\ \E h \in {NoHeader, BearerHeader(session.access),
                  BearerHeader(session.refresh)}, b \in GatedBodies(route) :
         /\ authReq' = h
         /\ authRes' = authenticateToken(h, clock)
         /\ rt' \in gated(route, b, authenticateToken(h, clock))
    /\ UNCHANGED <<connVars, tokVars, clock>>

\* what a client may put in req.body.refreshToken: nothing, one of the two
\* tokens it holds, a token signed with another key, a word that is no token
RefreshBodies ==
    {NoHeader, TokenString(session.refresh), TokenString(session.access),
     TokenString(Jwt("alice", MaxClock + MaxTtl + 1, "other")),
     [present |-> TRUE, chars |-> <<Bearer>>]}

\* POST /api/auth/refresh with or without the cookie of the client, and
\* with a body of RefreshBodies; the client goes on with the new access
\* token or with the one it has
AuthRefreshRequest ==
    /\ rt.pc = "idle" /\ authRes = NoOutcome
    /\ session.access # NoToken
    /\ \E cookie \in {NoHeader, TokenString(session.cookie)}, b \in RefreshBodies :
         LET out == authRefresh(cookie, b, clock)
         IN /\ authReq' = authRefreshToken(cookie, b)
            /\ authRes' = out
            /\ session' \in
                 {session} \cup
                 {[session EXCEPT !.access = out.token, !.accessIat = clock,
                                  !.loggedOut = FALSE] : x \in
                      IF out.status = 200 THEN {1} ELSE {}}
    /\ UNCHANGED <<connVars, ttl, rt, clock>>

\* POST /api/auth/logout: res.clearCookie("refreshToken"); res.json(...)
AuthLogout ==
    /\ rt.pc = "idle" /\ authRes = NoOutcome
    /\ session.access # NoToken
    /\ session' = [session EXCEPT !.cookie = NoToken, !.loggedOut = TRUE]
    /\ authReq' = NoHeader
    /\ authRes' = AuthOutcome("logout", clock, 200, 0, NoUser,
                              "Logged out successfully", "none")
    /\ UNCHANGED <<connVars, ttl, rt, clock>>

\* the driver errors of a session: the handlers of its routes do not look
\* at the message
SessionErrors == {err \in DbErrors : err.message = {} /\ err.number = 0}

SessionLoginBodies ==
    [username : {Word("alice")}, password : {Word("correct"), Word("wrong")}]

\* the token lifetimes are read from the environment at module load
TokenInit ==
    /\ variant = "index"
    /\ Listening /\ AuthIdle
    /\ ttl \in [access : 0..MaxTtl, refresh : 0..MaxTtl]
    /\ session = NoSession
    /\ rt = IdleRoute

TokenNext ==
    \/ Tick
    \/ RouteArrives("/api/auth/login", SessionLoginBodies)
    \/ awaitGetDbConnection_resolved
    \/ awaitGetDbConnection_rejected(SessionErrors)
    \/ StatementResolves
    \/ StatementRejects(SessionErrors)
    \/ RouteEnds
    \/ \E route \in GatedRoutes : GatedRequest(route)
    \/ AuthRefreshRequest
    \/ AuthLogout
    \/ RequestEnds

SpecToken == TokenInit /\ [][TokenNext]_vars

\* ======================= connection manager claims =======================

\* C1: calls that overlap while no handle exists (each found globalPool
\* null) trigger exactly one sql.connect: never are two of them waiting on
\* their own connect attempt at the same time.
C1_OneConnectOnColdStart ==
    Cardinality({c \in Slots : req[c].pc = "connecting" /\ req[c].absent}) <= 1

\* C2: at most one pool that was created and is not closed exists.
C2_AtMostOneLiveHandle ==
    Cardinality({h \in HandleIds : Live(h)}) <= 1

\* C3: app.listen is called only after initializeDatabase succeeded at
\* startup (a pool was created); when the startup attempt fails the process
\* has exited with a non-zero code and never called app.listen.
C3_ListenOnlyAfterInit ==
    /\ listenCalled => (start.pc = "listening" /\ Created >= 1)
    /\ start.pc = "failed" => (exited /\ exitCode # 0 /\ ~listenCalled)

C3_StartupFailed ==
    start.pc = "failed" /\ exited /\ exitCode = 1 /\ connects = 1

\* C4: a getDbConnection call during which the database is reachable
\* throughout (and no shutdown is under way) succeeds and returns a live
\* handle.
C4_ReachableDbGivesLiveHandle ==
    (last.event \in {"acquired", "rejected"} /\ last.clean /\ sig.pc = "none")
        => /\ last.event = "acquired"
           /\ last.result # NULL
           /\ IF last.result = NULL THEN FALSE
              ELSE handles[last.result] = "open"

\* C5: a getDbConnection call that returns a handle created before the call
\* started has completed a successful probe on that handle.
C5_ExistingHandleWasProbed ==
    (last.event = "acquired" /\ last.result # NULL /\ last.result <= last.base)
        => last.probed = last.result

\* C6: whenever getDbConnection fails, it fails with "Database connection
\* not available".
C6_OnlyConnectionUnavailable ==
    last.event = "rejected" => last.err = "Database connection not available"

\* C7: every sql.connect call is made by startServer or inside a
\* getDbConnection call, and is that call's first and only one; no other
\* step (a pool 'error' event, a response, a shutdown) makes one.
C7_NoAutomaticConnect ==
    [][connects' # connects =>
         /\ connects' = connects + 1
         /\ \/ start.pc = "init" /\ start'.pc = "connecting"
            \/ \E c \in Slots :
                 /\ req[c].pc \in {"idle", "probing"}
                 /\ req'[c].pc = "connecting"
                 /\ req[c].attempts = 0
                 /\ req'[c].attempts = 1]_vars

C7_FailedConnectNotRetried ==
    /\ ~exited /\ globalPool = NULL
    /\ last.event = "rejected" /\ last.attempts = 1
    /\ \A c \in Slots : req[c].pc = "idle"

\* C8: when the process has exited through the SIGINT handler, the shared
\* handle, if any, is closed.
C8_NoOpenHandleAtShutdownExit ==
    (exited /\ sig.pc = "done")
        => IF globalPool = NULL THEN TRUE ELSE handles[globalPool] = "closed"

\* C9: a request that arrived while the handle was absent has made a
\* connect attempt before it is answered.
C9_AbsentHandleTriggersConnect ==
    (last.event # "none" /\ last.absent) => last.attempts >= 1


\* ============================ middleware claims ===========================
\* the header read independently of split(): the token is what stands
\* between the first space and the next one (or the end of the header)
FirstSpace(h, i) ==
    /\ i \in 1..Len(h.chars)
    /\ h.chars[i] = SP
    /\ \A j \in 1..(i - 1) : h.chars[j] # SP

CarriesNoToken(h) ==
    \/ ~h.present
    \/ \A i \in 1..Len(h.chars) :
         FirstSpace(h, i) => (i = Len(h.chars) \/ h.chars[i + 1] = SP)

\* the token of h is exactly the JWT a
CarriesJwt(h, a) ==
    /\ h.present
    /\ a \in Jwts
    /\ \E i \in 1..Len(h.chars) :
         /\ FirstSpace(h, i)
         /\ i + 1 <= Len(h.chars)
         /\ h.chars[i + 1] = a
         /\ (i + 1 = Len(h.chars) \/ h.chars[i + 2] = SP)

ValidAt(a, t) == a.key = "JWT_SECRET" /\ t < a.exp

\* C10: authenticateToken answers 401 without calling next() when the
\* request carries no token, 403 without calling next() when its token fails
\* verification, and for a valid unexpired token writes no response, sets
\* req.user to the token's claims and calls next() exactly once.
C10_AuthenticateToken ==
    authRes.middleware = "authenticateToken" =>
        IF CarriesNoToken(authReq)
        THEN authRes.status = 401 /\ authRes.next = 0
        ELSE IF \E a \in Jwts : CarriesJwt(authReq, a) /\ ValidAt(a, authRes.at)
        THEN /\ authRes.status = 0 /\ authRes.next = 1
             /\ \E a \in Jwts :
                  /\ CarriesJwt(authReq, a)
                  /\ authRes.user = [userId |-> a.user, exp |-> a.exp]
        ELSE authRes.status = 403 /\ authRes.next = 0

C10_ExpiredTokenRejected ==
    /\ authRes.middleware = "authenticateToken"
    /\ authRes.status = 403 /\ authRes.next = 0
    /\ \E a \in Jwts :
         CarriesJwt(authReq, a) /\ a.key = "JWT_SECRET" /\ a.exp <= authRes.at

\* C11: optionalAuthForReports, whatever the Authorization header is, sets
\* req.user to the fixed system identity and calls next() once; it writes no
\* response and never attaches the claims of the caller's token.
C11_OptionalAuthForReports ==
    authRes.middleware = "optionalAuthForReports" =>
        /\ authRes.user = SystemUser
        /\ authRes.next = 1
        /\ authRes.status = 0
        /\ \A a \in Jwts : authRes.user # [userId |-> a.user, exp |-> a.exp]

C11_ValidTokenGetsSystemIdentity ==
    /\ authRes.middleware = "optionalAuthForReports"
    /\ \E a \in Jwts : CarriesJwt(authReq, a) /\ ValidAt(a, authRes.at)
    /\ authRes.user = SystemUser /\ authRes.next = 1

\* C12: optionalAuth calls next() for every request and writes no response;
\* req.user is the decoded claims exactly when the request carries a token
\* that verifies, and is left as it was otherwise.
C12_OptionalAuth ==
    authRes.middleware = "optionalAuth" =>
        /\ authRes.next = 1
        /\ authRes.status = 0
        /\ IF \E a \in Jwts : CarriesJwt(authReq, a) /\ ValidAt(a, authRes.at)
           THEN \E a \in Jwts :
                  /\ CarriesJwt(authReq, a)
                  /\ authRes.user = [userId |-> a.user, exp |-> a.exp]
           ELSE authRes.user = NoUser

C12_BadTokenPassesUnauthenticated ==
    /\ authRes.middleware = "optionalAuth"
    /\ ~CarriesNoToken(authReq)
    /\ ~\E a \in Jwts : CarriesJwt(authReq, a) /\ ValidAt(a, authRes.at)
    /\ authRes.next = 1 /\ authRes.user = NoUser

\* the string b is exactly one JWT that verifies at time t
IsValidJwtString(b, t) ==
    /\ b.present /\ Len(b.chars) = 1
    /\ b.chars[1] \in Jwts /\ ValidAt(b.chars[1], t)

\* C14: every token that fails verification, whatever the cause (expired,
\* wrong signature or secret, malformed), gets one and the same response:
\* from authenticateToken 403 "Invalid or expired token", from
\* refreshAccessToken 403 "Invalid refresh token", both with the error
\* field "Invalid or expired token" that verifyToken throws for every cause.
C14_UniformVerificationFailure ==
    /\ ( /\ authRes.middleware = "authenticateToken"
         /\ ~CarriesNoToken(authReq)
         /\ ~\E a \in Jwts : CarriesJwt(authReq, a) /\ ValidAt(a, authRes.at) )
       => [authRes EXCEPT !.at = 0] =
              AuthOutcome("authenticateToken", 0, 403, 0, NoUser,
                          "Invalid or expired token", "Invalid or expired token")
    /\ ( /\ authRes.middleware = "refreshAccessToken"
         /\ authReq.present /\ authReq.chars # <<>>
         /\ ~IsValidJwtString(authReq, authRes.at) )
       => [authRes EXCEPT !.at = 0] =
              AuthOutcome("refreshAccessToken", 0, 403, 0, NoUser,
                          "Invalid refresh token", "Invalid or expired token")

C14_WrongSecretLooksLikeExpired ==
    /\ authRes.middleware = "refreshAccessToken"
    /\ authRes.status = 403
    /\ authRes.error = "Invalid or expired token"
    /\ authReq.present /\ Len(authReq.chars) = 1
    /\ authReq.chars[1] \in Jwts
    /\ authReq.chars[1].key = "other"
    /\ authRes.at < authReq.chars[1].exp

\* ============================== route claims ==============================
\* the user named in a login body exists; the password of the body is not
\* the stored one
UserExists(b) ==
    b.username.t = "string" /\ b.username.word \in DOMAIN Tbl_UserMaster
WrongPassword(b) ==
    UserExists(b) /\ b.password # Word(Tbl_UserMaster[b.username.word].User_Password)

\* C16: a login that is answered from the user table (not 400 for its
\* input, not 500 for a failure) for a user that does not exist, or for an
\* existing user with a password other than the stored one, is answered 401
\* "Invalid username or password" and carries no access token and no
\* refresh cookie.
C16_WrongPasswordRejected ==
    ( /\ rt.pc = "done"
      /\ rt.route \in {"/api/login", "/api/auth/login"}
      /\ rt.status \notin {400, 500}
      /\ rt.body.username.t = "string"
      /\ ~UserExists(rt.body) \/ WrongPassword(rt.body) )
    => /\ rt.status = 401
       /\ rt.message = "Invalid username or password"
       /\ rt.token = NoToken /\ rt.cookie = NoToken

\* the two amounts of a high-value report request
MinAmount(r) ==
    IF r.route = "/api/high-value-trans" THEN r.body.amount1 ELSE r.body.minAmount
MaxAmount(r) ==
    IF r.route = "/api/high-value-trans" THEN r.body.amount2 ELSE r.body.maxAmount
MinAboveMax(r) ==
    /\ ~parseFloat(MinAmount(r)).nan /\ ~parseFloat(MaxAmount(r)).nan
    /\ parseFloat(MinAmount(r)).val > parseFloat(MaxAmount(r)).val

\* C17: on each high-value report endpoint, a request whose minimum amount
\* is greater than its maximum amount is answered 400 at once: the handler
\* acquires no connection and executes no stored procedure for it.
C17_MinAboveMaxRejected ==
    ( /\ rt.route \in {"/api/high-value-trans", "/api/reports/high-value"}
      /\ MinAboveMax(rt) )
    => /\ rt.pc = "done" /\ rt.status = 400
       /\ ~rt.acquired /\ rt.executed = 0

\* C18: a request to a validating endpoint of index.js that fails the
\* validation is answered 400 in the step it arrives in: getDbConnection is
\* not called for it, no statement is executed, and the pool handle and the
\* pools are what they were before the request.
C18_ValidationBeforeDatabase ==
    [][ ( /\ rt'.pc # "idle"
          /\ rt'.route \in Routes("index")
          /\ validate(rt'.route, rt'.body) # "ok" )
        => /\ rt.pc = "idle"
           /\ rt'.pc = "done" /\ rt'.status = 400
           /\ ~rt'.acquired /\ rt'.executed = 0 /\ rt'.pool = NULL
           /\ globalPool' = globalPool /\ handles' = handles
           /\ connects' = connects ]_vars

C18_BadUserTypeAnswered400 ==
    /\ rt.pc = "done" /\ rt.route = "/api/usercreatapi"
    /\ rt.body.userType = Word("Guest")
    /\ rt.status = 400
    /\ rt.message = "User Type must be either 'Admin' or 'User'"
    /\ ~rt.acquired /\ rt.executed = 0

\* C19: when the stored-procedure call of /api/reportdocument fails with
\* the code ETIMEOUT or with a message that contains "timeout", the
\* response of the request is 504.
C19_TimeoutAnswered504 ==
    ( /\ rt.pc = "done" /\ rt.route = "/api/reportdocument"
      /\ rt.executed = 1
      /\ rt.caught.code = "ETIMEOUT" \/ "timeout" \in rt.caught.message )
    => rt.status = 504

\* C20: when the stored-procedure call of /api/high-value-trans fails with
\* a message that contains "Could not find stored procedure", the response
\* is 500 with the message that the stored procedure was not found, also
\* when the message contains "parameter" as well.
C20_MissingProcedureFirst ==
    ( /\ rt.pc = "done" /\ rt.route = "/api/high-value-trans"
      /\ rt.executed = 1
      /\ "Could not find stored procedure" \in rt.caught.message )
    => /\ rt.status = 500
       /\ rt.message
            = "Stored procedure 'AuditHVTranRpt_Sp' not found in database."

C20_MissingProcedureWithParameter ==
    /\ rt.pc = "done" /\ rt.route = "/api/high-value-trans"
    /\ rt.executed = 1
    /\ {"Could not find stored procedure", "parameter"} \subseteq rt.caught.message
    /\ rt.status = 500
    /\ rt.message = "Stored procedure 'AuditHVTranRpt_Sp' not found in database."

\* ============================== token claims ==============================
\* C13: a token is accepted only strictly before issue time + lifetime: the
\* access token a client holds passes authenticateToken exactly at the
\* times before accessIat + ttl.access, its refresh token passes
\* refreshAccessToken exactly at the times before refreshIat + ttl.refresh;
\* with a lifetime of 0 a token is rejected at the time it is issued.
C13_AcceptedOnlyBeforeExpiry ==
    /\ ( /\ authRes.middleware = "authenticateToken"
         /\ authReq = BearerHeader(session.access) )
       => ( (authRes.status = 0 /\ authRes.next = 1)
              <=> authRes.at < session.accessIat + ttl.access )
    /\ ( /\ authRes.middleware = "authenticateToken"
         /\ authReq = BearerHeader(session.access)
         /\ authRes.at >= session.accessIat + ttl.access )
       => authRes.status = 403
    /\ ( /\ authRes.middleware = "refreshAccessToken"
         /\ session.refresh # NoToken
         /\ authReq = TokenString(session.refresh) )
       => ( authRes.status = 200
              <=> authRes.at < session.refreshIat + ttl.refresh )

C13_ZeroTtlRejectedAtIssue ==
    /\ ttl.access = 0
    /\ authRes.middleware = "authenticateToken"
    /\ authReq = BearerHeader(session.access)
    /\ authRes.at = session.accessIat
    /\ authRes.status = 403 /\ authRes.next = 0

\* C15: whatever logins, logouts and refreshes came between the issue of a
\* token and its use, an unexpired token signed with JWT_SECRET is accepted:
\* the access token by authenticateToken, with its claims attached, and the
\* refresh token by refreshAccessToken; logout only clears the cookie.
C15_NoRevocation ==
    /\ ( /\ authRes.middleware = "authenticateToken"
         /\ authReq = BearerHeader(session.access)
         /\ ValidAt(session.access, authRes.at) )
       => /\ authRes.status = 0 /\ authRes.next = 1
          /\ authRes.user = [userId |-> session.access.user,
                             exp |-> session.access.exp]
    /\ ( /\ authRes.middleware = "refreshAccessToken"
         /\ session.refresh # NoToken
         /\ authReq = TokenString(session.refresh)
         /\ ValidAt(session.refresh, authRes.at) )
       => authRes.status = 200 /\ authRes.token # NoToken
    /\ ( authRes.middleware = "logout" )
       => session.cookie = NoToken /\ session.access # NoToken

C15_AcceptedAfterLogout ==
    /\ authRes.middleware = "authenticateToken"
    /\ authReq = BearerHeader(session.access)
    /\ session.loggedOut /\ session.cookie = NoToken
    /\ authRes.status = 0 /\ authRes.next = 1

\* C21: when POST /api/usercreatapi finds the user name taken, either by a
\* row returned by its existence check or by the error number 2627 thrown
\* by a statement, the response is 409 "User with this name already exists"
\* and the request has inserted no row; a 200 response is given only after
\* the INSERT of that user name resolved.
C21_DuplicateUserAnswered409 ==
    ( rt.pc = "done" /\ rt.route = "/api/usercreatapi" )
    => /\ ( \/ ( /\ rt.executed = 1 /\ rt.caught.code = "none"
                 /\ UserRows(trim(rt.body.userName)) # {}
                 /\ rt.status # 400 )
            \/ rt.caught.number = 2627 )
          => /\ rt.status = 409
             /\ rt.message = "User with this name already exists"
             /\ rt.inserted = {}
       /\ rt.status = 200
          => /\ rt.executed = 2
             /\ rt.inserted = {rt.body.userName.word}
             /\ UserRows(trim(rt.body.userName)) = {}
       /\ rt.status # 200 => rt.inserted = {}

C21_UniqueConstraintOnInsert ==
    /\ rt.pc = "done" /\ rt.route = "/api/usercreatapi"
    /\ rt.executed = 2
    /\ rt.caught.number = 2627
    /\ rt.status = 409 /\ rt.inserted = {}

\* C22: the step that handles GET /api/health answers in that step with
\* status 200, reports the database as "connected" when globalPool holds a
\* handle and as "disconnected" when it is null, calls neither
\* getDbConnection nor a statement, and leaves the shared handle, the pools
\* and the number of connect attempts as they were.
C22_HealthHasNoSideEffects ==
    [][ ( rt'.route = "/api/health" /\ rt'.pc # "idle" /\ rt' # rt )
        => /\ rt.pc = "idle"
           /\ rt'.pc = "done" /\ rt'.status = 200
           /\ rt'.message
                = IF globalPool = NULL THEN "disconnected" ELSE "connected"
           /\ ~rt'.acquired /\ rt'.executed = 0 /\ rt'.pool = NULL
           /\ globalPool' = globalPool /\ handles' = handles
           /\ connects' = connects ]_vars

C22_HealthReportsConnected ==
    /\ rt.pc = "done" /\ rt.route = "/api/health"
    /\ rt.status = 200 /\ rt.message = "connected"
    /\ globalPool # NULL /\ handles[globalPool] = "open"
    /\ ~rt.acquired /\ rt.executed = 0

\* the handler of r went through its catch block
Failed(r) == r.caught # IdleRoute.caught
\* the errors that a catch block answers with a status of their own: the
\* unique-constraint violation of /api/usercreatapi (409) and the timeout
\* of /api/reportdocument (504)
Classified(r) ==
    \/ r.route = "/api/usercreatapi" /\ r.caught.number = 2627
    \/ /\ r.route = "/api/reportdocument"
       /\ r.caught.code = "ETIMEOUT" \/ "timeout" \in r.caught.message

\* C23: a request whose getDbConnection call or statement failed is
\* answered with an error status, never with a 2xx one, and with 500 when
\* its catch block has no status of its own for the error.
C23_FailureAnswered500 ==
    ( rt.pc = "done" /\ Failed(rt) )
    => /\ rt.status >= 400
       /\ ~Classified(rt) => rt.status = 500

\* a string that is one JWT which verifies at time t
Verifies(b, t) ==
    /\ b.present /\ Len(b.chars) = 1
    /\ b.chars[1].kind = "jwt" /\ ValidAt(b.chars[1], t)

\* C24: the step that handles POST /api/auth/refresh answers 401 when
\* neither the cookie nor the body holds a refresh token, 403 when the token
\* does not verify, and otherwise 200 with an access token newly signed for
\* the claims of the presented token and expiring one access lifetime from
\* now; in each case no handler asks for the connection and the shared
\* handle, the pools and the connect count stay as they were.
C24_RefreshOutcomes ==
    [][ ( authRes = NoOutcome /\ authRes'.middleware = "refreshAccessToken" )
        => /\ IF ~authReq'.present \/ authReq'.chars = <<>>
              THEN authRes'.status = 401 /\ authRes'.token = NoToken
              ELSE IF ~Verifies(authReq', clock)
              THEN authRes'.status = 403 /\ authRes'.token = NoToken
              ELSE /\ authRes'.status = 200
                   /\ authRes'.token
                        = Jwt(authReq'.chars[1].user, clock + ttl.access,
                              "JWT_SECRET")
                   /\ authRes'.user.userId = authReq'.chars[1].user
           /\ rt' = rt /\ rt.pc = "idle"
           /\ globalPool' = globalPool /\ handles' = handles
           /\ connects' = connects ]_vars

C24_ExpiredRefreshTokenAnswered403 ==
    /\ authRes.middleware = "refreshAccessToken"
    /\ session.refresh # NoToken
    /\ authReq = TokenString(session.refresh)
    /\ authRes.at >= session.refresh.exp
    /\ authRes.status = 403 /\ authRes.token = NoToken

\* ==================== connection manager: interleavings ===================
\* C25: a getDbConnection call of index.js that resolves, resolves with a
\* pool handle and not with null, whatever other requests and pool 'error'
\* events did to the shared handle while the call was suspended.
C25_ResolvedHandleNeverNull ==
    (variant = "index" /\ last.event = "acquired") => last.result # NULL

\* C26: while the process runs, a pool that was created and is not closed
\* is the shared handle: no open pool is unreachable from globalPool.
C26_DiscardedHandleClosed ==
    ~exited => \A h \in HandleIds : Live(h) => globalPool = h

\* C27: the step in which the connect or the test query of a
\* getDbConnection call fails leaves globalPool null when it was null or
\* held the pool of that call, and leaves it alone when it holds a pool
\* that another call established, test query included, in the meantime.
C27_FailureKeepsConcurrentHandle ==
    [][ \A c \in Slots :
          ( /\ req[c].pc \in {"connecting", "testing"}
            /\ req'[c].pc = "idle"
            /\ last'.event = "rejected" )
          => IF globalPool = NULL \/ globalPool = req[c].target
             THEN globalPool' = NULL
             ELSE (\A d \in Slots :
                      req[d].pc = "testing" => req[d].target # globalPool)
                  => globalPool' = globalPool ]_vars

\* C28: a handler of index.js that has run to its end, whether its
\* statements resolved or failed with an error or a timeout, has written
\* exactly one response.
C28_ExactlyOneResponse ==
    ( rt.pc = "done" /\ rt.route \in Routes("index") ) => rt.sent = 1

\* C29: the step in which authenticateToken answers a request to one of
\* the gated routes with 401 or 403 ends the request with that response:
\* the handler does not run, getDbConnection is not called, no probe and no
\* statement is executed, and the shared handle, the pools and the connect
\* count stay as they were.
C29_RejectedRequestTouchesNoDatabase ==
    [][ ( /\ authRes = NoOutcome
          /\ authRes'.middleware = "authenticateToken"
          /\ authRes'.status \in {401, 403} )
        => /\ rt.pc = "idle"
           /\ rt'.route \in GatedRoutes
           /\ rt'.pc = "done" /\ rt'.status = authRes'.status
           /\ rt'.sent = 1
           /\ ~rt'.acquired /\ rt'.executed = 0 /\ rt'.pool = NULL
           /\ globalPool' = globalPool /\ handles' = handles
           /\ connects' = connects ]_vars

C29_ExpiredTokenOnUserright ==
    /\ rt.pc = "done" /\ rt.route = "/api/userright"
    /\ authRes.middleware = "authenticateToken"
    /\ authReq = BearerHeader(session.access)
    /\ authRes.status = 403 /\ rt.status = 403
    /\ rt.body.user = Word("x")
    /\ ~rt.acquired /\ rt.executed = 0

\* C30: both endpoints accept a token exactly when verifyToken accepts
\* it, whichever of the two kinds it was issued as: the refresh token of a
\* session passes authenticateToken as a bearer token exactly before
\* refreshIat + ttl.refresh, and its access token presented to the refresh
\* endpoint yields a new access token exactly before accessIat + ttl.access.
C30_TokenKindNotChecked ==
    /\ ( /\ authRes.middleware = "authenticateToken"
         /\ authReq.present /\ Len(authReq.chars) = 3 )
       => ( (authRes.status = 0 /\ authRes.next = 1)
              <=> verifyToken(<<authReq.chars[3]>>, authRes.at).ok )
    /\ ( /\ authRes.middleware = "refreshAccessToken"
         /\ authReq.present /\ authReq.chars # <<>> )
       => ( (authRes.status = 200 /\ authRes.token # NoToken)
              <=> verifyToken(authReq.chars, authRes.at).ok )
    /\ ( /\ authRes.middleware = "authenticateToken"
         /\ session.refresh # NoToken
         /\ authReq = BearerHeader(session.refresh) )
       => ( (authRes.status = 0 /\ authRes.next = 1)
              <=> authRes.at < session.refreshIat + ttl.refresh )
    /\ ( /\ authRes.middleware = "refreshAccessToken"
         /\ authReq = TokenString(session.access)
         /\ authRes.at < session.accessIat + ttl.access )
       => /\ authRes.status = 200
          /\ authRes.token
               = Jwt(session.access.user, authRes.at + ttl.access, "JWT_SECRET")

C30_RefreshTokenPassesAsBearer ==
    /\ authRes.middleware = "authenticateToken"
    /\ authReq = BearerHeader(session.refresh)
    /\ session.refresh # session.access
    /\ authRes.at >= session.accessIat + ttl.access
    /\ authRes.status = 0 /\ authRes.next = 1
    /\ rt.route \in GatedRoutes /\ rt.acquired

====
